---- MODULE Spec2Model ----
(***************************************************************************)
(* A model of git-dit: trailer accumulation (libgitdit::message::          *)
(* accumulation), the metadata filter and the filter specs of `git dit     *)
(* list` (src/filters.rs) and the subcommands gc, mirror, new, reply, tag, *)
(* create-message and show (src/main.rs).                                  *)
(***************************************************************************)
EXTENDS Integers, Sequences, FiniteSets, TLC

VARIABLES
    va,         \* a ValueAccumulator
    given,      \* the values handed to va.process since its construction
    map,        \* a keyed accumulator: registered key -> ValueAccumulator
    mapKind,    \* which map type backs the keyed accumulator
    policies,   \* the keys registered at construction, with their policy
    messages,   \* the trailer lists processed by map, in iteration order
    parents,    \* the commits of the repository: oid -> ordered parent oids
    trailers,   \* oid -> the trailers of the commit's message, in order
    refs,       \* the references of the repository: ref name -> target oid
    prios,      \* the remote priorization: remote names, preferred first
    filtered,   \* the last MetadataFilter::filter call and what it returned
    cmd,        \* the arguments of the last gc run
    collected,  \* the references the last gc run found collectable, in order
    printed,    \* the lines the last gc run printed
    errors,     \* the references the last gc run reported an error for
    commands,   \* the subcommands run so far: their arguments and outcome
    selected,   \* the last select_ref call on the heads of an issue: its result
    tracks,     \* the slots of the tree graph: the oid each waits for, 0 if empty
    pending,    \* the messages the tree graph has not emitted yet, in order
    line,       \* the last (graph-line, commit) pair the tree graph emitted
    input,      \* the text of a filter spec of the command line
    parsed      \* what FilterSpec::from_str returned for input

accVars == <<va, given, map, mapKind, policies, messages>>
repoVars == <<parents, trailers, refs, prios>>
gcVars == <<cmd, collected, printed, errors>>
cliVars == <<commands>>
graphVars == <<tracks, pending, line>>
parseVars == <<input, parsed>>
fnVars == <<selected, graphVars, parseVars>>
vars == <<accVars, repoVars, filtered, gcVars, cliVars, fnVars>>

\* Option::None
None == "None"

----------------------------------------------------------------------------
\* Bounds of the model

\* number of values handed to one ValueAccumulator
MaxGiven == 4
\* number of messages (process / process_all calls) on a keyed accumulator
MaxMessages == 2
\* number of trailers processed by a keyed accumulator over all messages
MaxTrailers == 3
\* number of commits of the issue under study
MaxCommits == 3
\* number of times a subcommand is run on one repository
MaxRuns == 2
\* number of messages of the issue `show` draws the tree graph of
MaxShown == 4
\* length of the text of a filter spec, in pieces of text
MaxSpecLen == 3

----------------------------------------------------------------------------
\* Trailers

StatusKey == "Issue-status"
TypeKey == "Issue-type"
\* keys a keyed accumulator may register
SpecKeys == {StatusKey, TypeKey}
\* keys that occur in messages
TrailerValues == {"open", "closed"}
\* a trailer is (key, value), as Trailer::into gives it; the trailers that
\* occur in messages
Trailers == (SpecKeys \X TrailerValues) \cup {<<"Signed-off-by", "A">>}
TrailerKeys == {t[1] : t \in Trailers}

SeqsUpTo(S, n) == UNION {[1..k -> S] : k \in 0..n}

RECURSIVE Flatten(_)
Flatten(ss) == IF ss = <<>> THEN <<>> ELSE Head(ss) \o Flatten(Tail(ss))

----------------------------------------------------------------------------
\* ValueAccumulator

AccumulationPolicy == {"Latest", "List"}

\* From<AccumulationPolicy> for ValueAccumulator
ValueAccumulator_from(policy) ==
    IF policy = "Latest"
    THEN [tag |-> "Latest", value |-> None]
    ELSE [tag |-> "List", values |-> <<>>]

\* Latest overwrites the value it holds
ValueAccumulator_process_overwrite(acc, new_value) ==
    IF acc.tag = "Latest"
    THEN [acc EXCEPT !.value = new_value]
    ELSE [acc EXCEPT !.values = Append(@, new_value)]

\* List skips a value it already holds
ValueAccumulator_process_dedup(acc, new_value) ==
    IF acc.tag = "Latest"
    THEN IF acc.value = None THEN [acc EXCEPT !.value = new_value] ELSE acc
    ELSE IF \E i \in 1..Len(acc.values) : acc.values[i] = new_value
         THEN acc
         ELSE [acc EXCEPT !.values = Append(@, new_value)]

\* ValueAccumulator::process
ValueAccumulator_process(acc, new_value) ==
    IF acc.tag = "Latest"
    THEN IF acc.value = None THEN [acc EXCEPT !.value = new_value] ELSE acc
    ELSE [acc EXCEPT !.values = Append(@, new_value)]

\* IntoIterator for ValueAccumulator: the values held, as a sequence
ValueAccumulator_into_iter(acc) ==
    IF acc.tag = "Latest"
    THEN IF acc.value = None THEN <<>> ELSE <<acc.value>>
    ELSE acc.values

----------------------------------------------------------------------------
\* Keyed accumulators

MapKinds == {"HashMap", "BTreeMap"}

\* a trailer of an unknown key gets an accumulator of its own
HashMap_process_insert(m, trailer) ==
    LET key == trailer[1]
        value == trailer[2]
    IN  [k \in DOMAIN m \cup {key} |->
            IF k = key
            THEN ValueAccumulator_process(
                    IF k \in DOMAIN m THEN m[k] ELSE ValueAccumulator_from("Latest"),
                    value)
            ELSE m[k]]

\* Accumulator::process for HashMap<String, ValueAccumulator, S>
HashMap_process(m, trailer) ==
    LET key == trailer[1]
        value == trailer[2]
    IN  IF key \in DOMAIN m
        THEN [m EXCEPT ![key] = ValueAccumulator_process(@, value)]
        ELSE m

\* Accumulator::process for BTreeMap<String, ValueAccumulator>
BTreeMap_process(m, trailer) ==
    LET key == trailer[1]
        value == trailer[2]
    IN  IF key \in DOMAIN m
        THEN [m EXCEPT ![key] = ValueAccumulator_process(@, value)]
        ELSE m

\* Accumulator::process, dispatched on the implementing type
Accumulator_process(kind, m, trailer) ==
    IF kind = "HashMap" THEN HashMap_process(m, trailer)
    ELSE BTreeMap_process(m, trailer)

RECURSIVE Accumulator_process_all(_, _, _)
\* Accumulator::process_all
Accumulator_process_all(kind, m, iter) ==
    IF iter = <<>> THEN m
    ELSE Accumulator_process_all(kind,
            Accumulator_process(kind, m, Head(iter)), Tail(iter))

----------------------------------------------------------------------------
\* Repository: commits, reference names, issues

\* the remote names, in lexicographic order
Remotes == <<"fork", "origin", "upstream">>

\* refs/dit/<id>/head
LocalHead(id) == [remote |-> None, issue |-> id, kind |-> "Head"]
\* refs/remotes/<remote>/dit/<id>/head
RemoteHead(remote, id) == [remote |-> remote, issue |-> id, kind |-> "Head"]
\* refs/dit/<id>/leaves/<oid>
LocalLeaf(id, oid) ==
    [remote |-> None, issue |-> id, kind |-> "Leaf", leaf |-> oid]
\* refs/remotes/<remote>/dit/<id>/leaves/<oid>
RemoteLeaf(remote, id, oid) ==
    [remote |-> remote, issue |-> id, kind |-> "Leaf", leaf |-> oid]

Range(seq) == {seq[i] : i \in 1..Len(seq)}

\* the position of x in seq, Len(seq) + 1 when x is not in it
IndexOf(seq, x) ==
    IF \E i \in 1..Len(seq) : seq[i] = x
    THEN CHOOSE i \in 1..Len(seq) : seq[i] = x /\ \A j \in 1..(i - 1) : seq[j] # x
    ELSE Len(seq) + 1

RECURSIVE LexLess(_, _)
\* lexicographic order on tuples of numbers of one length
LexLess(a, b) ==
    /\ a # <<>>
    /\ \/ Head(a) < Head(b)
       \/ Head(a) = Head(b) /\ LexLess(Tail(a), Tail(b))

\* the order of reference names as strings: refs/dit/... sorts before
\* refs/remotes/..., then the remote, the issue id, head before leaves/<oid>
RefNameKey(r) ==
    << IF r.remote = None THEN 0 ELSE 1,
       IndexOf(Remotes, r.remote),
       r.issue,
       IF r.kind = "Head" THEN 0 ELSE 1,
       IF r.kind = "Head" THEN 0 ELSE r.leaf >>

\* the sort key of select_ref: locality, index of the remote in the
\* priorization (unlisted remotes after all listed ones), reference name
SelectKey(r, P) ==
    << IF r.remote = None THEN 0 ELSE 1,
       IF r.remote = None THEN 0 ELSE IndexOf(P, r.remote) >> \o RefNameKey(r)

\* ReferrencesExt::select_ref: the preferred candidate, as an Option
select_ref(candidates, P) ==
    IF candidates = {} THEN <<>>
    ELSE << CHOOSE r \in candidates :
                \A q \in candidates \ {r} : LexLess(SelectKey(r, P), SelectKey(q, P)) >>

\* Issue::heads: the local and remote head references of issue id
Issue_heads(repoRefs, id) ==
    {r \in DOMAIN repoRefs : r.issue = id /\ r.kind = "Head"}

RECURSIVE Issue_messages_from(_, _, _)
\* Issue::messages_from: the first-parent walk from oid, stopping at the
\* initial message id inclusive
Issue_messages_from(par, id, oid) ==
    IF oid = id \/ par[oid] = <<>> THEN <<oid>>
    ELSE <<oid>> \o Issue_messages_from(par, id, par[oid][1])

----------------------------------------------------------------------------
\* Metadata filter

\* the filters `list` can be given: (key of the trailer spec, value the
\* Equals matcher compares with)
FilterSpecs == {<<StatusKey, "open">>, <<StatusKey, "closed">>, <<TypeKey, "open">>}

RECURSIVE accumulate_trailers_from(_, _, _)
accumulate_trailers_from(acc, par_trailers, commits) ==
    IF commits = <<>> THEN acc
    ELSE accumulate_trailers_from(
            Accumulator_process_all("HashMap", acc, par_trailers[Head(commits)]),
            par_trailers, Tail(commits))

\* MessagesExt::accumulate_trailers: a HashMap with a Latest accumulator for
\* every spec key, fed the trailers of the commits in iteration order
accumulate_trailers(par_trailers, commits, keys) ==
    accumulate_trailers_from(
        [k \in keys |-> ValueAccumulator_from("Latest")], par_trailers, commits)

\* TrailerFilter::matches with ValueMatcher::Equals: the key is present in
\* the accumulated view and the accumulated value equals the matcher's
TrailerFilter_matches(f, acc) ==
    /\ f[1] \in DOMAIN acc
    /\ ValueAccumulator_into_iter(acc[f[1]]) # <<>>
    /\ \A i \in 1..Len(ValueAccumulator_into_iter(acc[f[1]])) :
            ValueAccumulator_into_iter(acc[f[1]])[i] = f[2]

\* the commits whose trailers filter accumulates: those of messages_from the
\* selected head, none when no head is selected
filter_messages(P, repoRefs, par, id) ==
    LET head == select_ref(Issue_heads(repoRefs, id), P)
    IN  IF head = <<>> THEN <<>>
        ELSE Issue_messages_from(par, id, repoRefs[head[1]])

\* one matching filter is enough
MetadataFilter_filter_any(fs, P, repoRefs, par, par_trailers, id) ==
    IF fs = <<>> THEN TRUE
    ELSE LET acc == accumulate_trailers(par_trailers,
                        filter_messages(P, repoRefs, par, id),
                        {fs[i][1] : i \in 1..Len(fs)})
         IN  \E i \in 1..Len(fs) : TrailerFilter_matches(fs[i], acc)

\* no early return, and an issue without a head is rejected
MetadataFilter_filter_needs_head(fs, P, repoRefs, par, par_trailers, id) ==
    LET acc == accumulate_trailers(par_trailers,
                    filter_messages(P, repoRefs, par, id),
                    {fs[i][1] : i \in 1..Len(fs)})
    IN  /\ select_ref(Issue_heads(repoRefs, id), P) # <<>>
        /\ \A i \in 1..Len(fs) : TrailerFilter_matches(fs[i], acc)

\* the trailers of all messages of the repository are accumulated, newest
\* first, if a head is selected
MetadataFilter_filter_all_messages(fs, P, repoRefs, par, par_trailers, id) ==
    IF fs = <<>> THEN TRUE
    ELSE LET head == select_ref(Issue_heads(repoRefs, id), P)
             below == IF head = <<>> THEN {} ELSE DOMAIN par
             newestFirst == [i \in 1..Cardinality(below) |->
                                CHOOSE c \in below :
                                    Cardinality({d \in below : d > c}) = i - 1]
             acc == accumulate_trailers(par_trailers, newestFirst,
                        {fs[i][1] : i \in 1..Len(fs)})
         IN  \A i \in 1..Len(fs) : TrailerFilter_matches(fs[i], acc)

\* MetadataFilter::filter
MetadataFilter_filter(fs, P, repoRefs, par, par_trailers, id) ==
    IF fs = <<>> THEN TRUE
    ELSE LET acc == accumulate_trailers(par_trailers,
                        filter_messages(P, repoRefs, par, id),
                        {fs[i][1] : i \in 1..Len(fs)})
         IN  \A i \in 1..Len(fs) : TrailerFilter_matches(fs[i], acc)

----------------------------------------------------------------------------
\* Garbage collection of references

\* libgitdit::gc::ReferenceCollectionSpec
ReferenceCollectionSpec == {"Never", "BackedByRemoteHead"}

RECURSIVE Ancestors(_, _)
\* the commits a revwalk from the commits S visits: S and all their ancestors
Ancestors(par, S) ==
    LET next == S \cup UNION {Range(par[c]) : c \in S}
    IN  IF next = S THEN S ELSE Ancestors(par, next)

RECURSIVE SortRefs(_)
\* the references S as a list without duplicates, in reference name order
SortRefs(S) ==
    IF S = {} THEN <<>>
    ELSE LET first == CHOOSE r \in S :
                        \A q \in S \ {r} : LexLess(RefNameKey(r), RefNameKey(q))
         IN  <<first>> \o SortRefs(S \ {first})

\* RepositoryExt::issues: the ids that have a head reference
Repository_issues(repoRefs) == {r.issue : r \in {q \in DOMAIN repoRefs : q.kind = "Head"}}

\* every candidate leaf is collectable, whatever it points to
CollectableRefs_for_issue_all_leaves(repoRefs, par, consider_remote_refs, collect_heads, id) ==
    LET heads == Issue_heads(repoRefs, id)
        leaves == {r \in DOMAIN repoRefs :
                      /\ r.issue = id /\ r.kind = "Leaf"
                      /\ (r.remote = None \/ consider_remote_refs)}
        backed == {r \in heads :
                      /\ r.remote = None /\ collect_heads = "BackedByRemoteHead"
                      /\ \E q \in heads : q.remote # None /\ repoRefs[q] = repoRefs[r]}
    IN  SortRefs(leaves \cup backed)

\* CollectableRefs::for_issue: the candidate leaf references (local ones, and
\* remote ones with consider_remote_refs) whose commit is an ancestor of a
\* head of the issue, and with BackedByRemoteHead the local head when a
\* remote head points to the same commit
CollectableRefs_for_issue(repoRefs, par, consider_remote_refs, collect_heads, id) ==
    LET heads == Issue_heads(repoRefs, id)
        known == Ancestors(par, {repoRefs[h] : h \in heads})
        leaves == {r \in DOMAIN repoRefs :
                      /\ r.issue = id /\ r.kind = "Leaf"
                      /\ (r.remote = None \/ consider_remote_refs)
                      /\ repoRefs[r] \in known}
        backed == {r \in heads :
                      /\ r.remote = None /\ collect_heads = "BackedByRemoteHead"
                      /\ \E q \in heads : q.remote # None /\ repoRefs[q] = repoRefs[r]}
    IN  SortRefs(leaves \cup backed)

RECURSIVE ReferenceDeletingIter(_, _, _)
\* ReferenceDeletingIter: deletes every reference of the list; an item per
\* reference tells whether it was deleted (its name) or the deletion failed
ReferenceDeletingIter(list, failing, repoRefs) ==
    IF list = <<>> THEN [refs |-> repoRefs, items |-> <<>>]
    ELSE LET r == Head(list)
             ok == r \in DOMAIN repoRefs /\ r \notin failing
             after == IF ok THEN [q \in DOMAIN repoRefs \ {r} |-> repoRefs[q]]
                      ELSE repoRefs
             rest == ReferenceDeletingIter(Tail(list), failing, after)
         IN  [refs |-> rest.refs, items |-> <<[ok |-> ok, ref |-> r]>> \o rest.items]

\* the deleting iterator run to its end: the names of the deleted references
\* are printed, the failures are left on the error channel
deleting_output(list, failing, repoRefs) ==
    LET it == ReferenceDeletingIter(list, failing, repoRefs)
        IsOk(item) == item.ok
        IsErr(item) == ~item.ok
        oks == SelectSeq(it.items, IsOk)
        errs == SelectSeq(it.items, IsErr)
    IN  [refs |-> it.refs,
         printed |-> [i \in 1..Len(oks) |-> oks[i].ref],
         errors |-> [i \in 1..Len(errs) |-> errs[i].ref]]

\* the list up to the first reference whose deletion fails
UpToFirstFailure(list, failing) ==
    LET F == {i \in 1..Len(list) : list[i] \in failing}
    IN  IF F = {} THEN list
        ELSE SubSeq(list, 1, CHOOSE i \in F : \A j \in F : i <= j)

\* the first failed deletion ends the run
gc_delete_abort(list, failing, repoRefs) ==
    deleting_output(UpToFirstFailure(list, failing), failing, repoRefs)

\* gc_impl without dry-run: ReferenceDeletingIter::from(refs).print_lines()
gc_delete(list, failing, repoRefs) ==
    deleting_output(list, failing, repoRefs)

\* heads are collected whether or not --collect-heads is given
gc_collect_heads_always(present) == "BackedByRemoteHead"

\* gc_impl: the ReferenceCollectionSpec for heads, from --collect-heads
gc_collect_heads(present) ==
    IF present THEN "BackedByRemoteHead" ELSE "Never"

\* the issues given on the command line are ignored
gc_refs_every_issue(repoRefs, par, consider_remote, collect_heads, issues) ==
    LET ids == SortRefs({LocalHead(id) : id \in Repository_issues(repoRefs)})
        collector(i) == CollectableRefs_for_issue(repoRefs, par, consider_remote,
                            gc_collect_heads(collect_heads), ids[i].issue)
    IN  Flatten([i \in 1..Len(ids) |-> collector(i)])

\* gc_impl: the collectable references of the issues given on the command
\* line, or of all issues of the repository when none is given
gc_refs(repoRefs, par, consider_remote, collect_heads, issues) ==
    LET ids == SortRefs({LocalHead(id) :
                    id \in IF issues = <<>> THEN Repository_issues(repoRefs)
                           ELSE issues[1]})
        collector(i) == CollectableRefs_for_issue(repoRefs, par, consider_remote,
                            gc_collect_heads(collect_heads), ids[i].issue)
    IN  Flatten([i \in 1..Len(ids) |-> collector(i)])

\* --dry-run is ignored
gc_output_always_delete(dry_run, list, failing, repoRefs) ==
    gc_delete(list, failing, repoRefs)

\* gc_impl: with --dry-run the names are printed, otherwise the references
\* are deleted
gc_output(dry_run, list, failing, repoRefs) ==
    IF dry_run
    THEN [refs |-> repoRefs, printed |-> list, errors |-> <<>>]
    ELSE gc_delete(list, failing, repoRefs)

----------------------------------------------------------------------------
\* Specification SpecValue: one ValueAccumulator and the values it is given

ValueIdle == va = [tag |-> None] /\ given = <<>>
AccIdle == map = <<>> /\ mapKind = None /\ policies = <<>> /\ messages = <<>>
RepoIdle == parents = <<>> /\ trailers = <<>> /\ refs = <<>> /\ prios = <<>>
FilterIdle == filtered = <<>>
GcIdle == cmd = <<>> /\ collected = <<>> /\ printed = <<>> /\ errors = <<>>
CliIdle == commands = <<>>
GraphIdle == tracks = <<>> /\ pending = <<>> /\ line = <<>>
ParseIdle == input = <<>> /\ parsed = <<>>
FnIdle == selected = <<>> /\ GraphIdle /\ ParseIdle

InitValue ==
    /\ \E policy \in AccumulationPolicy : va = ValueAccumulator_from(policy)
    /\ given = <<>>
    /\ AccIdle
    /\ RepoIdle
    /\ FilterIdle
    /\ GcIdle
    /\ CliIdle
    /\ FnIdle

\* acc.process(new_value)
Process(new_value) ==
    /\ Len(given) < MaxGiven
    /\ va' = ValueAccumulator_process(va, new_value)
    /\ given' = Append(given, new_value)
    /\ UNCHANGED <<map, mapKind, policies, messages, repoVars, filtered, gcVars, cliVars, fnVars>>

NextValue == \E new_value \in TrailerValues \cup {"bug"} : Process(new_value)

SpecValue == InitValue /\ [][NextValue]_vars

\* C2: a Latest accumulator that was given values holds the first of them,
\* whatever was processed after it.
C2_LatestKeepsFirst ==
    (va.tag = "Latest" /\ given # <<>>) => va.value = given[1]

\* a Latest accumulator was given three values, a different one after the first
C2_Witness ==
    /\ va.tag = "Latest"
    /\ Len(given) >= 3
    /\ given[2] # given[1]
    /\ given[3] # given[2]
    /\ va.value = given[1]

\* C3: a List accumulator started empty yields exactly the values it
\* processed, duplicates included, in the order they were processed.
C3_ListKeepsAll ==
    va.tag = "List" => ValueAccumulator_into_iter(va) = given

\* a List accumulator was given the same value twice, and another in between
C3_Witness ==
    /\ va.tag = "List"
    /\ Len(given) = 3
    /\ given[1] = given[3]
    /\ given[2] # given[1]
    /\ Len(va.values) = 3

----------------------------------------------------------------------------
\* Specification SpecAcc: a keyed accumulator and the messages it processes

InitAcc ==
    /\ ValueIdle
    /\ mapKind \in MapKinds
    /\ \E keys \in SUBSET SpecKeys : policies \in [keys -> AccumulationPolicy]
    /\ map = [k \in DOMAIN policies |-> ValueAccumulator_from(policies[k])]
    /\ messages = <<>>
    /\ RepoIdle
    /\ FilterIdle
    /\ GcIdle
    /\ CliIdle
    /\ FnIdle

\* map.process(trailer)
ProcessTrailer(trailer) ==
    /\ Len(messages) < MaxMessages
    /\ Len(Flatten(messages)) < MaxTrailers
    /\ map' = Accumulator_process(mapKind, map, trailer)
    /\ messages' = Append(messages, <<trailer>>)
    /\ UNCHANGED <<va, given, mapKind, policies, repoVars, filtered, gcVars, cliVars, fnVars>>

\* map.process_all(iter), iter the trailers of one message
ProcessAll(iter) ==
    /\ Len(messages) < MaxMessages
    /\ Len(Flatten(messages)) + Len(iter) <= MaxTrailers
    /\ map' = Accumulator_process_all(mapKind, map, iter)
    /\ messages' = Append(messages, iter)
    /\ UNCHANGED <<va, given, mapKind, policies, repoVars, filtered, gcVars, cliVars, fnVars>>

NextAcc ==
    \/ \E trailer \in Trailers : ProcessTrailer(trailer)
    \/ \E iter \in SeqsUpTo(Trailers, MaxTrailers - Len(Flatten(messages))) :
            ProcessAll(iter)

SpecAcc == InitAcc /\ [][NextAcc]_vars

\* the keys of the trailers of one message
KeysOf(iter) == {iter[j][1] : j \in 1..Len(iter)}

\* the first message, in iteration order, that carries key k (0: none does)
NewestCarrying(msgs, k) ==
    LET S == {i \in 1..Len(msgs) : k \in KeysOf(msgs[i])}
    IN  IF S = {} THEN 0 ELSE CHOOSE i \in S : \A j \in S : i <= j

\* the value of the first trailer of key k in a message that carries k
ValueIn(iter, k) ==
    LET J == {j \in 1..Len(iter) : iter[j][1] = k}
    IN  iter[CHOOSE j \in J : \A l \in J : j <= l][2]

\* C1: for every key registered with policy Latest, the accumulated value is
\* the value of that key in the newest message (first in iteration order)
\* carrying the key, and there is no value if no message carries it.
C1_LatestIsNewest ==
    \A k \in DOMAIN map :
        map[k].tag = "Latest" =>
            map[k].value = IF NewestCarrying(messages, k) = 0 THEN None
                           ELSE ValueIn(messages[NewestCarrying(messages, k)], k)

\* the newest message says closed, the oldest open: the result is closed
C1_Witness ==
    /\ StatusKey \in DOMAIN map
    /\ map[StatusKey].tag = "Latest"
    /\ messages = << <<<<StatusKey, "closed">>>>, <<<<StatusKey, "open">>>> >>
    /\ map[StatusKey].value = "closed"

\* C4: processing trailers never changes the set of keys of the map, leaves
\* the accumulator of every key other than the trailers' own keys unchanged,
\* and leaves the whole map unchanged when no trailer's key is registered.
C4_UnknownKeysDropped ==
    [][messages' # messages =>
        LET iter == messages'[Len(messages')]
        IN  /\ DOMAIN map' = DOMAIN policies
            /\ \A k \in DOMAIN map : k \notin KeysOf(iter) => map'[k] = map[k]
            /\ (KeysOf(iter) \cap DOMAIN policies = {} => map' = map)]_vars

\* trailers of two unregistered keys were processed with one of a registered
\* key: only the registered key's accumulator holds a value
C4_Witness ==
    /\ DOMAIN policies = {StatusKey}
    /\ DOMAIN map = {StatusKey}
    /\ {"Signed-off-by", TypeKey, StatusKey} \subseteq KeysOf(Flatten(messages))
    /\ ValueAccumulator_into_iter(map[StatusKey]) # <<>>

----------------------------------------------------------------------------
\* Specification SpecFilter: a repository with one issue, and the metadata
\* filter of `list` applied to it

\* the id of the issue under study: the oid of its initial message
IssueId == CHOOSE c \in 1..MaxCommits : \A d \in 1..MaxCommits : c <= d

\* the trailers a message of the issue may carry
MessageTrailers ==
    { <<>>, << <<StatusKey, "open">> >>, << <<StatusKey, "closed">> >>,
      << <<"Signed-off-by", "A">>, <<TypeKey, "open">> >> }

\* the parents a commit may have: none for the initial message, one older
\* commit, or for the youngest commit two of them (a reply with a reference)
ParentChoices(c) ==
    IF c = IssueId THEN {<<>>}
    ELSE {<<p>> : p \in 1..(c - 1)}
         \cup (IF c = MaxCommits
               THEN {<<p, q>> : p \in 1..(c - 1), q \in 1..(c - 1)} \ {<<p, p>> : p \in 1..(c - 1)}
               ELSE {})

\* the sets of filters, as the Vec of MetadataFilter
FilterSets ==
    { <<>>, << <<StatusKey, "open">> >>, << <<StatusKey, "closed">> >>,
      << <<TypeKey, "open">> >>,
      << <<StatusKey, "open">>, <<TypeKey, "open">> >>,
      << <<StatusKey, "open">>, <<StatusKey, "closed">> >> }

\* references pointing at the given targets, absent where the target is none
HeadRefs(id, localHead, remoteHead) ==
    LET names == (IF localHead = <<>> THEN {} ELSE {LocalHead(id)})
                 \cup (IF remoteHead = <<>> THEN {} ELSE {RemoteHead("origin", id)})
    IN  [r \in names |-> IF r.remote = None THEN localHead[1] ELSE remoteHead[1]]

\* the issue has a local head and a head of origin, each present or not and
\* at any commit; every message carries one of MessageTrailers
InitFilter ==
    /\ ValueIdle
    /\ AccIdle
    /\ parents \in {f \in [1..MaxCommits -> UNION {ParentChoices(c) : c \in 1..MaxCommits}] :
                        \A c \in 1..MaxCommits : f[c] \in ParentChoices(c)}
    /\ trailers \in [1..MaxCommits -> MessageTrailers]
    /\ \E localHead \in SeqsUpTo(1..MaxCommits, 1), remoteHead \in SeqsUpTo(1..MaxCommits, 1) :
            refs = HeadRefs(IssueId, localHead, remoteHead)
    /\ prios = <<"origin">>
    /\ filtered = <<>>
    /\ GcIdle
    /\ CliIdle
    /\ FnIdle

\* MetadataFilter { prios, trailers: fs }.filter(issue)
Filter(fs, id) ==
    /\ filtered' = << [filters |-> fs, issue |-> id,
                      result |-> MetadataFilter_filter(fs, prios, refs, parents, trailers, id)] >>
    /\ UNCHANGED <<accVars, repoVars, gcVars, cliVars, fnVars>>

NextFilter == \E fs \in FilterSets : Filter(fs, IssueId)

SpecFilter == InitFilter /\ [][NextFilter]_vars

\* the accumulated-latest view of an issue for key k: the value of the first
\* trailer of key k in the newest message, walking first parents from the
\* selected head, that carries k; empty when there is none
LatestView(id, k) ==
    LET heads == {r \in DOMAIN refs : r.issue = id /\ r.kind = "Head"}
        walk == IF heads = {} THEN <<>>
                ELSE Issue_messages_from(parents, id, refs[select_ref(heads, prios)[1]])
        msgs == [i \in 1..Len(walk) |-> trailers[walk[i]]]
    IN  IF NewestCarrying(msgs, k) = 0 THEN <<>>
        ELSE <<ValueIn(msgs[NewestCarrying(msgs, k)], k)>>

\* C5: a metadata filter with an empty filter set returns true for every
\* issue, whatever its heads, messages and trailers are.
C5_EmptyAcceptsAll ==
    \A i \in 1..Len(filtered) : filtered[i].filters = <<>> => filtered[i].result

\* the empty filter accepted an issue that has no head at all, and whose
\* messages carry trailers
C5_Witness ==
    /\ filtered # <<>>
    /\ filtered[1].filters = <<>>
    /\ filtered[1].result
    /\ Issue_heads(refs, IssueId) = {}
    /\ \E c \in DOMAIN trailers : trailers[c] # <<>>

\* C6: filter returns true iff, for every filter of the set, the key is
\* present in the accumulated-latest view of the issue and the value there
\* equals the matcher's; so status:open is rejected while the latest
\* Issue-status is closed and accepted when it is open.
C6_FilterIffAllMatch ==
    \A i \in 1..Len(filtered) :
        filtered[i].result =
            \A j \in 1..Len(filtered[i].filters) :
                LatestView(filtered[i].issue, filtered[i].filters[j][1])
                    = <<filtered[i].filters[j][2]>>

\* status:open rejected an issue whose latest Issue-status is closed and
\* whose older message said open
C6_Witness ==
    /\ filtered # <<>>
    /\ filtered[1].filters = << <<StatusKey, "open">> >>
    /\ ~filtered[1].result
    /\ LatestView(IssueId, StatusKey) = <<"closed">>
    /\ trailers[IssueId] = << <<StatusKey, "open">> >>

----------------------------------------------------------------------------
\* Specification SpecGc: a repository with two issues, and gc runs on it

\* the id of a second issue, which has its initial message only
OtherIssueId == MaxCommits + 1

\* leaf references pointing at the commits they are named after
LeafRefs(names) == [r \in names |-> r.leaf]

\* the union of two reference stores with disjoint names
MergeRefs(a, b) ==
    [r \in DOMAIN a \cup DOMAIN b |-> IF r \in DOMAIN a THEN a[r] ELSE b[r]]

\* every commit of the issue but the initial message has one parent; the
\* issue has a local head, a head of origin, local leaves and a leaf of
\* origin, each present or not and at any commit; the second issue has a
\* local head and a local leaf at its initial message
InitGc ==
    /\ ValueIdle
    /\ AccIdle
    /\ FilterIdle
    /\ parents \in {f \in [1..OtherIssueId -> {<<>>} \cup {<<p>> : p \in 1..MaxCommits}] :
                        /\ \A c \in 1..MaxCommits :
                                f[c] \in ParentChoices(c) /\ Len(f[c]) <= 1
                        /\ f[OtherIssueId] = <<>>}
    /\ trailers = [c \in 1..OtherIssueId |-> <<>>]
    /\ \E localHead \in SeqsUpTo(1..MaxCommits, 1),
          remoteHead \in SeqsUpTo(1..MaxCommits, 1),
          localLeaves \in SUBSET (1..MaxCommits),
          remoteLeaf \in SeqsUpTo(1..MaxCommits, 1) :
            refs = MergeRefs(
                    MergeRefs(HeadRefs(IssueId, localHead, remoteHead),
                              HeadRefs(OtherIssueId, <<OtherIssueId>>, <<>>)),
                    LeafRefs({LocalLeaf(IssueId, c) : c \in localLeaves}
                             \cup {RemoteLeaf("origin", IssueId, c) : c \in Range(remoteLeaf)}
                             \cup {LocalLeaf(OtherIssueId, OtherIssueId)}))
    /\ prios = <<"origin">>
    /\ GcIdle
    /\ CliIdle
    /\ FnIdle

\* no deletion fails, or the deletion of one reference of the list does
FailureSets(dry_run, list) ==
    IF dry_run THEN {{}} ELSE {{}} \cup {{r} : r \in Range(list)}

\* git dit gc [--dry-run] [--collect-heads] [--consider-remote] [issue...],
\* run once on the repository; failing: the references whose deletion fails
\* during this run
Gc(args) ==
    LET list == gc_refs(refs, parents, args.consider_remote, args.collect_heads,
                        args.issues)
    IN  /\ cmd = <<>>
        /\ collected' = list
        /\ \E failing \in FailureSets(args.dry_run, list) :
            LET out == gc_output(args.dry_run, list, failing, refs)
            IN  /\ cmd' = <<[args EXCEPT !.failing = failing]>>
                /\ refs' = out.refs
                /\ printed' = out.printed
                /\ errors' = out.errors
        /\ UNCHANGED <<accVars, parents, trailers, prios, filtered, cliVars, fnVars>>

GcArgs ==
    [dry_run : BOOLEAN, collect_heads : BOOLEAN, consider_remote : BOOLEAN,
     issues : {<<>>, <<{IssueId}>>}, failing : {{}}]

NextGc == \E args \in GcArgs : Gc(args)

SpecGc == InitGc /\ [][NextGc]_vars

RECURSIVE IsAncestor(_, _)
\* commit a is commit d or an ancestor of it
IsAncestor(a, d) ==
    a = d \/ \E i \in 1..Len(parents[d]) : IsAncestor(a, parents[d][i])

\* commit c is an ancestor of a head of issue id, in the given references
AncestorOfHead(repoRefs, id, c) ==
    \E h \in DOMAIN repoRefs :
        h.issue = id /\ h.kind = "Head" /\ IsAncestor(c, repoRefs[h])

\* the issues a gc run with the given arguments works on
GcIssues(args, repoRefs) ==
    IF args.issues = <<>>
    THEN {r.issue : r \in {q \in DOMAIN repoRefs : q.kind = "Head"}}
    ELSE args.issues[1]

\* C7: the references gc finds collectable are references that exist, of the
\* issues it works on; no leaf reference among them points to a true leaf (a
\* commit that is not an ancestor of any head of its issue); and every
\* candidate leaf reference (local, or remote with --consider-remote) whose
\* commit is an ancestor of a head is among them.
C7_CollectableLeaves ==
    [][cmd' # <<>> =>
        /\ \A r \in Range(collected') :
            /\ r \in DOMAIN refs
            /\ r.issue \in GcIssues(cmd'[1], refs)
            /\ r.kind = "Leaf" => AncestorOfHead(refs, r.issue, refs[r])
        /\ \A r \in DOMAIN refs :
            (/\ r.kind = "Leaf"
             /\ r.issue \in GcIssues(cmd'[1], refs)
             /\ (r.remote = None \/ cmd'[1].consider_remote)
             /\ AncestorOfHead(refs, r.issue, refs[r]))
                => r \in Range(collected')
        /\ \A i \in 1..Len(collected'), j \in 1..Len(collected') :
            collected'[i] = collected'[j] => i = j]_vars

\* a dry run on the issue with a head H, a leaf L1 that is an ancestor of H
\* and a true leaf L2: exactly the reference of L1 is collectable
C7_Witness ==
    /\ cmd # <<>>
    /\ cmd[1].dry_run
    /\ cmd[1].issues = <<{IssueId}>>
    /\ LocalHead(IssueId) \in DOMAIN refs
    /\ \E l1 \in DOMAIN parents, l2 \in DOMAIN parents :
        /\ l1 # refs[LocalHead(IssueId)]
        /\ IsAncestor(l1, refs[LocalHead(IssueId)])
        /\ ~AncestorOfHead(refs, IssueId, l2)
        /\ {LocalLeaf(IssueId, l1), LocalLeaf(IssueId, l2)} \subseteq DOMAIN refs
        /\ collected = <<LocalLeaf(IssueId, l1)>>

\* C8: without --dry-run, every collectable reference whose deletion does not
\* fail is deleted, also those after a failed one, and every reference whose
\* deletion fails is still there and is reported on the error channel.
C8_BestEffortDeletion ==
    [][(cmd' # <<>> /\ ~cmd'[1].dry_run) =>
        /\ \A r \in Range(collected') \ cmd'[1].failing : r \notin DOMAIN refs'
        /\ \A r \in Range(collected') \cap cmd'[1].failing :
            r \in DOMAIN refs' /\ r \in Range(errors')
        /\ Range(errors') = Range(collected') \cap cmd'[1].failing]_vars

\* the deletion of the first collectable reference failed and the second one
\* was deleted all the same
C8_Witness ==
    /\ cmd # <<>>
    /\ ~cmd[1].dry_run
    /\ Len(collected) >= 2
    /\ cmd[1].failing = {collected[1]}
    /\ errors = <<collected[1]>>
    /\ collected[1] \in DOMAIN refs
    /\ collected[2] \notin DOMAIN refs
    /\ collected[2] \in Range(printed)

\* C9: with --dry-run gc prints the names of the collectable references and
\* leaves the references of the repository as they are; without it the
\* collectable references are deleted (all of them when no deletion fails),
\* nothing else is, and exactly the names of the deleted ones are printed.
C9_DryRunFrame ==
    [][cmd' # <<>> =>
        IF cmd'[1].dry_run
        THEN refs' = refs /\ printed' = collected' /\ errors' = <<>>
        ELSE /\ DOMAIN refs' = DOMAIN refs \ (Range(collected') \ cmd'[1].failing)
             /\ \A r \in DOMAIN refs' : refs'[r] = refs[r]
             /\ Range(printed') = DOMAIN refs \ DOMAIN refs'
             /\ Len(printed') = Cardinality(Range(printed'))]_vars

\* a dry run printed two collectable references, which are still there
C9_Witness ==
    /\ cmd # <<>>
    /\ cmd[1].dry_run
    /\ Len(printed) >= 2
    /\ printed = collected
    /\ Range(collected) \subseteq DOMAIN refs

\* C10: without --collect-heads no head reference is collected; with it the
\* only head collected is a local head for which a remote head of the same
\* issue points to the same commit; a remote reference is collected only with
\* --consider-remote.
C10_HeadsAndRemotes ==
    [][cmd' # <<>> =>
        \A r \in Range(collected') :
            /\ r.kind = "Head" =>
                /\ cmd'[1].collect_heads
                /\ r.remote = None
                /\ \E q \in DOMAIN refs :
                    /\ q.kind = "Head" /\ q.issue = r.issue /\ q.remote # None
                    /\ refs[q] = refs[r]
            /\ r.remote # None => cmd'[1].consider_remote]_vars

\* with --collect-heads a local head backed by the remote head was deleted,
\* and without --consider-remote a remote leaf in the head's history was kept
C10_Witness ==
    /\ cmd # <<>>
    /\ cmd[1].collect_heads
    /\ ~cmd[1].consider_remote
    /\ ~cmd[1].dry_run
    /\ LocalHead(IssueId) \in Range(printed)
    /\ LocalHead(IssueId) \notin DOMAIN refs
    /\ RemoteHead("origin", IssueId) \in DOMAIN refs
    /\ \E c \in DOMAIN parents :
        /\ RemoteLeaf("origin", IssueId, c) \in DOMAIN refs
        /\ IsAncestor(c, refs[RemoteHead("origin", IssueId)])

----------------------------------------------------------------------------
\* The mirror subcommand

\* the reference store with name pointing at oid, created or moved
SetRef(repoRefs, name, oid) ==
    [r \in DOMAIN repoRefs \cup {name} |-> IF r = name THEN oid ELSE repoRefs[r]]

\* Issue::update_head(oid, force): the local head is created, or overwritten
\* with force; without force an existing head is an AlreadyExists error
Issue_update_head(repoRefs, id, oid, force) ==
    IF LocalHead(id) \in DOMAIN repoRefs /\ ~force
    THEN [refs |-> repoRefs, err |-> <<"AlreadyExists">>]
    ELSE [refs |-> SetRef(repoRefs, LocalHead(id), oid), err |-> <<>>]

\* Issue::add_leaf(oid): refs/dit/<id>/leaves/<oid> pointing at oid
Issue_add_leaf(repoRefs, id, oid) == SetRef(repoRefs, LocalLeaf(id, oid), oid)

\* Issue::local_refs(kind) and Issue::remote_refs(kind); kind "Any" is both
Issue_local_refs(repoRefs, id, kind) ==
    {r \in DOMAIN repoRefs :
        r.issue = id /\ r.remote = None /\ (kind = "Any" \/ r.kind = kind)}
Issue_remote_refs(repoRefs, id, kind) ==
    {r \in DOMAIN repoRefs :
        r.issue = id /\ r.remote # None /\ (kind = "Any" \/ r.kind = kind)}

\* the commits the revwalk of Issue::terminated_messages yields once the
\* commits starts are pushed: they and their ancestors, the initial message
\* included and nothing beyond it
Issue_terminated_messages(par, id, starts) ==
    Ancestors(par, starts) \ (Ancestors(par, {id}) \ {id})

\* RemotePriorization::from(remote), or the repository's priorization
mirror_prios(remote, P) == IF remote = <<>> THEN P ELSE remote

\* the head part of mirror for one issue: the selected head is handed to
\* update_head with force = update_head
mirror_head_forced(repoRefs, P, update_head, id) ==
    LET r == select_ref(Issue_heads(repoRefs, id), P)
    IN  IF r = <<>> THEN [refs |-> repoRefs, err |-> <<>>]
        ELSE Issue_update_head(repoRefs, id, repoRefs[r[1]], TRUE)
mirror_head(repoRefs, P, update_head, id) ==
    LET r == select_ref(Issue_heads(repoRefs, id), P)
    IN  IF r = <<>> THEN [refs |-> repoRefs, err |-> <<>>]
        ELSE Issue_update_head(repoRefs, id, repoRefs[r[1]], update_head)

\* the parents of the candidate leaves are not pushed onto the revwalk
mirror_leaves_without_parents(repoRefs, par, remote, id) ==
    LET leaves == {repoRefs[r] :
                    r \in {q \in Issue_remote_refs(repoRefs, id, "Leaf") :
                            remote = <<>> \/ q.remote = remote[1]}}
        pushed == {repoRefs[r] : r \in Issue_local_refs(repoRefs, id, "Any")}
    IN  leaves \ Issue_terminated_messages(par, id, pushed)
\* the leaves part of mirror for one issue: the commits add_leaf is called
\* for
mirror_leaves(repoRefs, par, remote, id) ==
    LET leaves == {repoRefs[r] :
                    r \in {q \in Issue_remote_refs(repoRefs, id, "Leaf") :
                            remote = <<>> \/ q.remote = remote[1]}}
        pushed == {repoRefs[r] : r \in Issue_local_refs(repoRefs, id, "Any")}
                  \cup UNION {Range(par[c]) : c \in leaves}
    IN  leaves \ Issue_terminated_messages(par, id, pushed)

RECURSIVE add_leaves(_, _, _)
add_leaves(repoRefs, id, leaves) ==
    IF leaves = {} THEN repoRefs
    ELSE LET leaf == CHOOSE c \in leaves : TRUE
         IN  add_leaves(Issue_add_leaf(repoRefs, id, leaf), id, leaves \ {leaf})

\* the local leaves are replaced by the leaves created, not added to
mirror_issue_replacing_leaves(repoRefs, par, P, args, id) ==
    LET head == IF args.clone_head \/ args.update_head
                THEN mirror_head(repoRefs, P, args.update_head, id)
                ELSE [refs |-> repoRefs, err |-> <<>>]
        others == [r \in DOMAIN head.refs \ Issue_local_refs(head.refs, id, "Leaf")
                        |-> head.refs[r]]
    IN  IF head.err # <<>> THEN [refs |-> head.refs, aborted |-> TRUE]
        ELSE IF args.create_leaves
        THEN [refs |-> add_leaves(others, id,
                            mirror_leaves(head.refs, par, args.remote, id)),
              aborted |-> FALSE]
        ELSE [refs |-> head.refs, aborted |-> FALSE]
\* the body of mirror's loop for one issue; a failing update_head aborts the
\* command before the leaves part
mirror_issue(repoRefs, par, P, args, id) ==
    LET head == IF args.clone_head \/ args.update_head
                THEN mirror_head(repoRefs, P, args.update_head, id)
                ELSE [refs |-> repoRefs, err |-> <<>>]
    IN  IF head.err # <<>> THEN [refs |-> head.refs, aborted |-> TRUE]
        ELSE IF args.create_leaves
        THEN [refs |-> add_leaves(head.refs, id,
                            mirror_leaves(head.refs, par, args.remote, id)),
              aborted |-> FALSE]
        ELSE [refs |-> head.refs, aborted |-> FALSE]

RECURSIVE mirror_impl(_, _, _, _, _)
\* mirror over the issues in order; nothing is done after an abort
mirror_impl(repoRefs, par, P, args, issues) ==
    IF issues = <<>> THEN [refs |-> repoRefs, aborted |-> FALSE]
    ELSE LET first == mirror_issue(repoRefs, par, P, args, Head(issues))
         IN  IF first.aborted THEN first
             ELSE mirror_impl(first.refs, par, P, args, Tail(issues))

RECURSIVE SortIds(_)
SortIds(S) ==
    IF S = {} THEN <<>>
    ELSE LET first == CHOOSE c \in S : \A d \in S : c <= d
         IN  <<first>> \o SortIds(S \ {first})

\* the issues of the command line, or all issues of the repository
mirror_issues(repoRefs, issues) ==
    SortIds(IF issues = <<>> THEN Repository_issues(repoRefs) ELSE issues[1])

----------------------------------------------------------------------------
\* Specification SpecMirror: a repository with one issue that has local
\* references and leaf references of remotes, and mirror runs on it

\* one older parent, or for the youngest commit an older parent and a still
\* older reference
MirrorParentChoices(c) ==
    {ps \in ParentChoices(c) : Len(ps) = 2 => ps[2] < ps[1]}

\* the local head is absent or at the initial message (as `new` leaves it);
\* there is at most one local leaf; origin has any leaves and upstream has
\* none or one at the youngest commit
InitMirror ==
    /\ ValueIdle
    /\ AccIdle
    /\ FilterIdle
    /\ GcIdle
    /\ CliIdle
    /\ FnIdle
    /\ parents \in {f \in [1..MaxCommits -> UNION {MirrorParentChoices(c) : c \in 1..MaxCommits}] :
                        \A c \in 1..MaxCommits : f[c] \in MirrorParentChoices(c)}
    /\ trailers = [c \in 1..MaxCommits |-> <<>>]
    /\ \E localHead \in SeqsUpTo({IssueId}, 1),
          localLeaf \in SeqsUpTo(1..MaxCommits, 1),
          originLeaves \in SUBSET (1..MaxCommits),
          upstreamLeaf \in SeqsUpTo({MaxCommits}, 1) :
            refs = MergeRefs(
                    HeadRefs(IssueId, localHead, <<>>),
                    LeafRefs({LocalLeaf(IssueId, c) : c \in Range(localLeaf)}
                             \cup {RemoteLeaf("origin", IssueId, c) : c \in originLeaves}
                             \cup {RemoteLeaf("upstream", IssueId, c) : c \in Range(upstreamLeaf)}))
    /\ prios = <<"origin">>

\* git dit mirror [--clone-head] [--update-head] [--clone-leaves] [remote]
\* [issue...]
RunMirror(args) ==
    LET out == mirror_impl(refs, parents, mirror_prios(args.remote, prios), args,
                           mirror_issues(refs, args.issues))
    IN  /\ refs' = out.refs
        /\ commands' = Append(commands,
                [cmd |-> "mirror", args |-> args, aborted |-> out.aborted,
                 created |-> DOMAIN out.refs \ DOMAIN refs])
        /\ UNCHANGED <<accVars, parents, trailers, prios, filtered, gcVars, fnVars>>

\* the first mirror run on the repository
Mirror(args) == commands = <<>> /\ RunMirror(args)

\* the last mirror run is repeated with the same arguments
MirrorAgain ==
    /\ commands # <<>>
    /\ commands[Len(commands)].cmd = "mirror"
    /\ Len(commands) < MaxRuns
    /\ RunMirror(commands[Len(commands)].args)

MirrorArgs ==
    [remote : SeqsUpTo({"origin", "upstream"}, 1), clone_head : BOOLEAN,
     update_head : BOOLEAN, create_leaves : BOOLEAN,
     issues : {<<>>, <<{IssueId}>>}]

NextMirror == (\E args \in MirrorArgs : Mirror(args)) \/ MirrorAgain

SpecMirror == InitMirror /\ [][NextMirror]_vars

\* the step is a mirror run
MirrorStep == commands' # commands /\ commands'[Len(commands')].cmd = "mirror"
\* the arguments of the mirror run of the step
StepArgs == commands'[Len(commands')].args

\* the local leaf references of issue id the step created, by leaf commit
NewLeaves(id) ==
    {r.leaf : r \in {q \in DOMAIN refs' \ DOMAIN refs :
                        q.issue = id /\ q.remote = None /\ q.kind = "Leaf"}}

\* the commits the leaf references of issue id of the remotes point to, of
\* one remote only when the remote is given
LRemote(id, remote) ==
    {refs[r] : r \in {q \in DOMAIN refs :
                        /\ q.issue = id /\ q.kind = "Leaf" /\ q.remote # None
                        /\ (remote = <<>> \/ q.remote = remote[1])}}

\* the commits between the initial message and a local reference of issue id
\* (the leaves before the step, the head as the step leaves it) or a parent
\* of a commit of LRemote
LKnown(id, remote) ==
    LET starts == {refs[r] : r \in {q \in DOMAIN refs :
                        q.issue = id /\ q.remote = None /\ q.kind = "Leaf"}}
                  \cup {refs'[r] : r \in {LocalHead(id)} \cap DOMAIN refs'}
                  \cup {p \in DOMAIN parents :
                            \E c \in LRemote(id, remote) : p \in Range(parents[c])}
    IN  {c \in DOMAIN parents :
            /\ \E s \in starts : IsAncestor(c, s)
            /\ ~(c # id /\ IsAncestor(c, id))}

\* the head part of the mirror run fails for issue id: the local head exists
\* and --clone-head is given without --update-head
HeadFails(id) ==
    /\ StepArgs.clone_head /\ ~StepArgs.update_head
    /\ LocalHead(id) \in DOMAIN refs

\* the issues the mirror run of the step works on
MirrorIssues ==
    IF StepArgs.issues = <<>>
    THEN {r.issue : r \in {q \in DOMAIN refs : q.kind = "Head"}}
    ELSE StepArgs.issues[1]

----------------------------------------------------------------------------
\* The tag subcommand

\* Repository::commit without a reference to update: the commit gets the
\* next free oid
Repository_commit(par, trl, parent_refs, message_trailers) ==
    [oid |-> Len(par) + 1,
     parents |-> Append(par, parent_refs),
     trailers |-> Append(trl, message_trailers)]

\* the head is set without force
tag_impl_unforced(repoRefs, par, trl, P, args) ==
    LET head == select_ref(Issue_heads(repoRefs, args.issue), P)
        new == Repository_commit(par, trl,
                    <<repoRefs[head[1]]>> \o args.references, args.trailers)
        set == Issue_update_head(repoRefs, args.issue, new.oid, FALSE)
    IN  IF head = <<>> \/ args.list \/ (args.references = <<>> /\ args.trailers = <<>>)
        THEN [refs |-> repoRefs, parents |-> par, trailers |-> trl,
              aborted |-> head = <<>>, created |-> <<>>]
        ELSE [refs |-> set.refs, parents |-> new.parents, trailers |-> new.trailers,
              aborted |-> set.err # <<>>, created |-> <<new.oid>>]
\* tag: aborts when the issue has no head; lists only with --list; creates
\* no commit without references and trailers; else creates a commit on top
\* of the selected head and sets the local head to it with force
tag_impl(repoRefs, par, trl, P, args) ==
    LET head == select_ref(Issue_heads(repoRefs, args.issue), P)
        new == Repository_commit(par, trl,
                    <<repoRefs[head[1]]>> \o args.references, args.trailers)
        set == Issue_update_head(repoRefs, args.issue, new.oid, TRUE)
    IN  IF head = <<>> \/ args.list \/ (args.references = <<>> /\ args.trailers = <<>>)
        THEN [refs |-> repoRefs, parents |-> par, trailers |-> trl,
              aborted |-> head = <<>>, created |-> <<>>]
        ELSE [refs |-> set.refs, parents |-> new.parents, trailers |-> new.trailers,
              aborted |-> set.err # <<>>, created |-> <<new.oid>>]

\* git dit tag [--list] [--reference <commit>...] [--set-status <trailer>...]
\* <issue>
Tag(args) ==
    LET out == tag_impl(refs, parents, trailers, prios, args)
    IN  /\ refs' = out.refs
        /\ parents' = out.parents
        /\ trailers' = out.trailers
        /\ commands' = Append(commands,
                [cmd |-> "tag", args |-> args, aborted |-> out.aborted,
                 created |-> out.created])
        /\ UNCHANGED <<accVars, prios, filtered, gcVars, fnVars>>

----------------------------------------------------------------------------
\* Specification SpecHead: a repository with one issue that has a local head
\* and heads of remotes, each present or not, and one mirror or tag run on it

\* the commits form a tree; there are no leaf references
InitHead ==
    /\ ValueIdle
    /\ AccIdle
    /\ FilterIdle
    /\ GcIdle
    /\ CliIdle
    /\ FnIdle
    /\ parents \in {f \in [1..MaxCommits -> UNION {ParentChoices(c) : c \in 1..MaxCommits}] :
                        \A c \in 1..MaxCommits :
                            f[c] \in ParentChoices(c) /\ Len(f[c]) <= 1}
    /\ trailers = [c \in 1..MaxCommits |-> <<>>]
    /\ \E localHead \in SeqsUpTo(1..MaxCommits, 1),
          originHead \in SeqsUpTo(1..MaxCommits, 1),
          upstreamHead \in SeqsUpTo(1..MaxCommits, 1) :
            refs = MergeRefs(
                    HeadRefs(IssueId, localHead, originHead),
                    [r \in {RemoteHead("upstream", IssueId) : c \in Range(upstreamHead)}
                        |-> upstreamHead[1]])
    /\ prios \in {<<"origin">>, <<"upstream", "origin">>}

TagArgs ==
    [issue : {IssueId}, list : BOOLEAN, references : SeqsUpTo({IssueId}, 1),
     trailers : {<<>>, << <<StatusKey, "closed">> >>}]

NextHead ==
    \/ \E args \in MirrorArgs : Mirror(args)
    \/ MirrorAgain
    \/ \E args \in TagArgs : commands = <<>> /\ Tag(args)

SpecHead == InitHead /\ [][NextHead]_vars

\* the head references of issue id of the remotes
RemoteHeads(id) ==
    {r \in DOMAIN refs : r.issue = id /\ r.kind = "Head" /\ r.remote # None}

\* the remote head of issue id preferred under the priorization P: least
\* index of its remote in P, then least name
PreferredRemoteHead(id, P) ==
    CHOOSE r \in RemoteHeads(id) :
        \A q \in RemoteHeads(id) \ {r} :
            \/ IndexOf(P, r.remote) < IndexOf(P, q.remote)
            \/ /\ IndexOf(P, r.remote) = IndexOf(P, q.remote)
               /\ IndexOf(Remotes, r.remote) < IndexOf(Remotes, q.remote)

\* the priorization of the mirror run of the step
StepPrios == IF StepArgs.remote = <<>> THEN prios ELSE StepArgs.remote

\* C12: after a mirror run with --clone-head or --update-head, the local head
\* of every issue mirrored that has a head of a remote points to the commit
\* of the preferred remote head.
C12_Original ==
    [][MirrorStep /\ (StepArgs.clone_head \/ StepArgs.update_head) =>
        \A id \in MirrorIssues :
            RemoteHeads(id) # {} =>
                /\ LocalHead(id) \in DOMAIN refs'
                /\ refs'[LocalHead(id)] = refs[PreferredRemoteHead(id, StepPrios)]]_vars

\* C13: a mirror run with --clone-head and without --update-head aborts on
\* an issue with a local head and changes no reference; a mirror run for the
\* head of an issue with a head but no local head creates the local head,
\* with or without --update-head; a tag run that creates a commit leaves the
\* local head at that commit, whether or not a local head existed and
\* wherever it pointed.
C13_UpdateHead ==
    [][/\ MirrorStep /\ StepArgs.clone_head /\ ~StepArgs.update_head =>
            \A id \in MirrorIssues :
                LocalHead(id) \in DOMAIN refs =>
                    refs' = refs /\ commands'[Len(commands')].aborted
       /\ MirrorStep /\ (StepArgs.clone_head \/ StepArgs.update_head) =>
            \A id \in MirrorIssues :
                (LocalHead(id) \notin DOMAIN refs /\ RemoteHeads(id) # {}) =>
                    /\ LocalHead(id) \in DOMAIN refs'
                    /\ ~commands'[Len(commands')].aborted
       /\ (commands' # commands /\ commands'[Len(commands')].cmd = "tag") =>
            LET run == commands'[Len(commands')]
            IN  run.created # <<>> =>
                    /\ run.created[1] \notin DOMAIN parents
                    /\ run.created[1] \in DOMAIN parents'
                    /\ refs'[LocalHead(run.args.issue)] = run.created[1]
                    /\ ~run.aborted]_vars

\* tag created a commit on top of the selected head of an issue that also has
\* a head of origin, and the local head is at the new commit
C13_Witness ==
    /\ commands # <<>>
    /\ commands[1].cmd = "tag"
    /\ commands[1].created = <<MaxCommits + 1>>
    /\ parents[MaxCommits + 1][1] # MaxCommits + 1
    /\ refs[LocalHead(IssueId)] = MaxCommits + 1
    /\ RemoteHead("origin", IssueId) \in DOMAIN refs

----------------------------------------------------------------------------
\* Specification SpecSelect: the heads of one issue, each of the local
\* repository and of three remotes present or not, a priorization, and the
\* selection of a head as `list` and mirror make it

\* only the heads of remotes listed in the priorization are candidates
issue_head_listed_only(repoRefs, P, id) ==
    select_ref({r \in Issue_heads(repoRefs, id) : r.remote \in Range(P)}, P)
\* issue.heads().select_ref(&prios)
issue_head(repoRefs, P, id) == select_ref(Issue_heads(repoRefs, id), P)

\* the priorizations: lists of remote names without repetition
Priorizations ==
    {P \in SeqsUpTo(Range(Remotes), Len(Remotes)) :
        \A i, j \in 1..Len(P) : i # j => P[i] # P[j]}

InitSelect ==
    /\ ValueIdle
    /\ AccIdle
    /\ FilterIdle
    /\ GcIdle
    /\ CliIdle
    /\ FnIdle
    /\ parents = <<<<>>>>
    /\ trailers = <<<<>>>>
    /\ \E names \in SUBSET ({LocalHead(IssueId)}
                            \cup {RemoteHead(remote, IssueId) : remote \in Range(Remotes)}) :
            refs = [r \in names |-> IssueId]
    /\ prios \in Priorizations

SelectRef(id) ==
    /\ selected = <<>>
    /\ selected' = <<[issue |-> id, result |-> issue_head(refs, prios, id)]>>
    /\ UNCHANGED <<accVars, repoVars, filtered, gcVars, cliVars, graphVars, parseVars>>

NextSelect == SelectRef(IssueId)

SpecSelect == InitSelect /\ [][NextSelect]_vars

\* the name of a head reference as a string, each character given by its
\* position in the alphabet / a d e f g h i k m n o p r s t u (the issue id
\* stands for itself): refs/dit/<id>/head and
\* refs/remotes/<remote>/dit/<id>/head
RemoteChars(remote) ==
    CASE remote = "fork" -> <<4, 11, 13, 8>>
      [] remote = "origin" -> <<11, 13, 7, 5, 7, 10>>
      [] remote = "upstream" -> <<16, 12, 14, 15, 13, 3, 1, 9>>
HeadNameChars(r) ==
    IF r.remote = None
    THEN <<13, 3, 4, 14, 0, 2, 7, 15, 0>> \o <<r.issue>> \o <<0, 6, 3, 1, 2>>
    ELSE <<13, 3, 4, 14, 0, 13, 3, 9, 11, 15, 3, 14, 0>> \o RemoteChars(r.remote)
            \o <<0, 2, 7, 15, 0>> \o <<r.issue>> \o <<0, 6, 3, 1, 2>>

RECURSIVE StrLess(_, _)
\* the order of strings
StrLess(a, b) ==
    /\ b # <<>>
    /\ \/ a = <<>>
       \/ Head(a) < Head(b)
       \/ Head(a) = Head(b) /\ StrLess(Tail(a), Tail(b))

\* reference r sorts before reference q by (locality with local first, index
\* of the remote in P with unlisted remotes after all listed ones, name)
SortsBefore(r, q, P) ==
    LET remoteIndex(x) ==
            IF \E i \in 1..Len(P) : P[i] = x.remote
            THEN CHOOSE i \in 1..Len(P) : P[i] = x.remote
            ELSE Len(P) + 1
    IN  \/ r.remote = None /\ q.remote # None
        \/ /\ r.remote # None /\ q.remote # None
           /\ \/ remoteIndex(r) < remoteIndex(q)
              \/ /\ remoteIndex(r) = remoteIndex(q)
                 /\ StrLess(HeadNameChars(r), HeadNameChars(q))

\* C14: select_ref on the heads of an issue returns None exactly when there
\* is no head, and otherwise a head that sorts before every other head by
\* (locality, index of the remote in the priorization, reference name).
C14_SelectRefIsMinimum ==
    selected # <<>> =>
        LET C == {r \in DOMAIN refs : r.issue = selected[1].issue /\ r.kind = "Head"}
            result == selected[1].result
        IN  /\ result = <<>> <=> C = {}
            /\ result # <<>> =>
                /\ result[1] \in C
                /\ \A q \in C \ {result[1]} : SortsBefore(result[1], q, prios)

\* priorization [upstream, origin] with heads of origin, upstream and fork:
\* the head of upstream is selected
C14_Witness ==
    /\ prios = <<"upstream", "origin">>
    /\ DOMAIN refs = {RemoteHead(remote, IssueId) : remote \in {"origin", "upstream", "fork"}}
    /\ selected # <<>>
    /\ selected[1].result = <<RemoteHead("upstream", IssueId)>>

----------------------------------------------------------------------------
\* The new, reply and create-message subcommands

\* RepositoryExt::create_issue(author, committer, message, tree, parents):
\* the commit is written with the parents handed in (none by `new`) and the
\* head reference of the new issue is created in the same step
Repository_create_issue(repoRefs, par, trl, parent_refs, message_trailers) ==
    LET new == Repository_commit(par, trl, parent_refs, message_trailers)
    IN  [refs |-> SetRef(repoRefs, LocalHead(new.oid), new.oid),
         parents |-> new.parents, trailers |-> new.trailers, oid |-> new.oid]

\* Issue::add_message(author, committer, message, tree, parents): the commit
\* is written, the local leaf references of the issue that point to one of
\* its parents are removed and a leaf reference is created for it
Issue_add_message(repoRefs, par, trl, id, parent_refs, message_trailers) ==
    LET new == Repository_commit(par, trl, parent_refs, message_trailers)
        superseded == {r \in Issue_local_refs(repoRefs, id, "Leaf") :
                            repoRefs[r] \in Range(parent_refs)}
        kept == [r \in DOMAIN repoRefs \ superseded |-> repoRefs[r]]
    IN  [refs |-> Issue_add_leaf(kept, id, new.oid),
         parents |-> new.parents, trailers |-> new.trailers, oid |-> new.oid]

RECURSIVE Repository_issue_with_message(_, _, _)
\* RepositoryExt::issue_with_message: the issue a message belongs to, found
\* on the first-parent chain of the message; none if the chain holds no
\* initial message of an issue
Repository_issue_with_message(repoRefs, par, oid) ==
    IF oid \in Repository_issues(repoRefs) THEN <<oid>>
    ELSE IF par[oid] = <<>> THEN <<>>
    ELSE Repository_issue_with_message(repoRefs, par, par[oid][1])

\* new: an issue is created from a message without parents
new_impl(repoRefs, par, trl, args) ==
    Repository_create_issue(repoRefs, par, trl, <<>>, args.trailers)

\* reply: the message is added to the issue of the parent, with the parent
\* first and the references after it as parents; aborts if the parent
\* belongs to no issue
reply_impl(repoRefs, par, trl, args) ==
    LET issue == Repository_issue_with_message(repoRefs, par, args.parent)
        out == Issue_add_message(repoRefs, par, trl, issue[1],
                    <<args.parent>> \o args.references, args.trailers)
    IN  IF issue = <<>>
        THEN [refs |-> repoRefs, parents |-> par, trailers |-> trl, aborted |-> TRUE]
        ELSE [refs |-> out.refs, parents |-> out.parents, trailers |-> out.trailers,
              aborted |-> FALSE]

\* create-message: the message gets the parents of the command line; it is
\* added to the issue if one is given, else it becomes a new issue
create_message(repoRefs, par, trl, args) ==
    IF args.issue # <<>>
    THEN Issue_add_message(repoRefs, par, trl, args.issue[1], args.parents,
                           args.trailers)
    ELSE Repository_create_issue(repoRefs, par, trl, args.parents, args.trailers)

\* git dit new
New(args) ==
    LET out == new_impl(refs, parents, trailers, args)
    IN  /\ refs' = out.refs
        /\ parents' = out.parents
        /\ trailers' = out.trailers
        /\ commands' = Append(commands,
                [cmd |-> "new", args |-> args, aborted |-> FALSE])
        /\ UNCHANGED <<accVars, prios, filtered, gcVars, fnVars>>

\* git dit reply [--reference <commit>...] <parent>
Reply(args) ==
    LET out == reply_impl(refs, parents, trailers, args)
    IN  /\ refs' = out.refs
        /\ parents' = out.parents
        /\ trailers' = out.trailers
        /\ commands' = Append(commands,
                [cmd |-> "reply", args |-> args, aborted |-> out.aborted])
        /\ UNCHANGED <<accVars, prios, filtered, gcVars, fnVars>>

\* git dit create-message [--issue <issue>] [<parents>...]
CreateMessage(args) ==
    LET out == create_message(refs, parents, trailers, args)
    IN  /\ refs' = out.refs
        /\ parents' = out.parents
        /\ trailers' = out.trailers
        /\ commands' = Append(commands,
                [cmd |-> "create-message", args |-> args, aborted |-> FALSE])
        /\ UNCHANGED <<accVars, prios, filtered, gcVars, fnVars>>

----------------------------------------------------------------------------
\* Specification SpecCli: an empty repository and the commands new, reply,
\* tag and create-message run on it

InitCli ==
    /\ ValueIdle
    /\ AccIdle
    /\ FilterIdle
    /\ GcIdle
    /\ CliIdle
    /\ FnIdle
    /\ parents = <<>>
    /\ trailers = <<>>
    /\ refs = <<>>
    /\ prios = <<"origin">>

\* the commits of the repository
Commits == DOMAIN parents

NewArgs == [trailers : {<<>>}]
ReplyArgs ==
    [parent : Commits, references : SeqsUpTo(Commits, 1), trailers : {<<>>}]
CreateMessageArgs ==
    [issue : SeqsUpTo(Repository_issues(refs), 1), parents : SeqsUpTo(Commits, 1),
     trailers : {<<>>}]
CliTagArgs ==
    [issue : Repository_issues(refs), list : BOOLEAN,
     references : SeqsUpTo(Commits, 1),
     trailers : {<<>>, << <<StatusKey, "closed">> >>}]

\* every command creates at most one commit, and at most MaxCommits
\* commands are run
NextCli ==
    /\ Len(commands) < MaxCommits
    /\ \/ \E args \in NewArgs : New(args)
       \/ \E args \in ReplyArgs : Reply(args)
       \/ \E args \in CreateMessageArgs : CreateMessage(args)
       \/ \E args \in CliTagArgs : Tag(args)

SpecCli == InitCli /\ [][NextCli]_vars

\* the issues of the repository: the ids with a local head reference
LocalIssues == {r.issue : r \in {q \in DOMAIN refs : q.remote = None /\ q.kind = "Head"}}

\* C15: after new and create-message commands only, the id of every issue
\* (every id with a refs/dit/<id>/head reference) is the id of a commit
\* without parents.
C15_Original ==
    (\A i \in 1..Len(commands) : commands[i].cmd \in {"new", "create-message"}) =>
        \A id \in LocalIssues : id \in Commits /\ parents[id] = <<>>

RECURSIVE FirstParentChain(_)
\* the commits on the first-parent chain of commit c, c included
FirstParentChain(c) ==
    IF parents[c] = <<>> THEN {c} ELSE {c} \cup FirstParentChain(parents[c][1])

RECURSIVE WalkTo(_, _)
\* the commits a walk along first parents from commit c visits when it stops
\* at the initial message id
WalkTo(id, c) ==
    IF c = id \/ parents[c] = <<>> THEN {c} ELSE {c} \cup WalkTo(id, parents[c][1])

\* the commits reached from the heads and leaves of issue id
ReachedFromRefs(id) ==
    UNION {WalkTo(id, refs[r]) : r \in {q \in DOMAIN refs : q.issue = id}}

\* C16: after new, reply, tag and create-message commands, every commit
\* reached from the heads and leaves of an issue has the initial message of
\* the issue on its first-parent chain.
C16_Original ==
    \A id \in LocalIssues :
        \A c \in ReachedFromRefs(id) : id \in FirstParentChain(c)

----------------------------------------------------------------------------
\* The tree graph of show

\* TreeGraphElem
TreeGraphElem == {"Empty", "Passing", "Branch", "Merge", "Node"}

\* the slots waiting for commit c
Hits(slots, c) == {i \in 1..Len(slots) : slots[i] = c}

\* a slot for the parent p: a new one appended rightmost, or an empty one
AllocateSlot(slots, p) ==
    {Append(slots, p)}
    \cup {[slots EXCEPT ![i] = p] : i \in {j \in 1..Len(slots) : slots[j] = 0}}

RECURSIVE AllocateSlots(_, _)
\* slots for the additional parents ps, one after the other
AllocateSlots(slots, ps) ==
    IF ps = <<>> THEN {slots}
    ELSE UNION {AllocateSlots(t, Tail(ps)) : t \in AllocateSlot(slots, Head(ps))}

\* TreeGraph::next for commit c with parents ps: the graph-line of c and the
\* slots after it, one result for every way to place the additional parents
TreeGraph_next(slots, c, ps) ==
    LET waiting == IF Hits(slots, c) = {} THEN Append(slots, c) ELSE slots
        node == CHOOSE i \in Hits(waiting, c) : \A j \in Hits(waiting, c) : i <= j
        elems == [i \in 1..Len(waiting) |->
                    IF i = node THEN "Node"
                    ELSE IF waiting[i] = c THEN "Merge"
                    ELSE IF waiting[i] = 0 THEN "Empty"
                    ELSE "Passing"]
        replaced == [i \in 1..Len(waiting) |->
                    IF i = node THEN (IF ps = <<>> THEN 0 ELSE ps[1])
                    ELSE IF waiting[i] = c THEN 0
                    ELSE waiting[i]]
    IN  {[elems |-> elems, tracks |-> t] :
            t \in AllocateSlots(replaced, IF ps = <<>> THEN <<>> ELSE Tail(ps))}

\* every message is drawn by a tree graph of its own
show_next_fresh_graph(slots, messages_iter, par) ==
    TreeGraph_next(<<>>, Head(messages_iter), par[Head(messages_iter)])
\* issue.messages().into_tree_graph().collect(): the next pair collected
show_next(slots, messages_iter, par) ==
    TreeGraph_next(slots, Head(messages_iter), par[Head(messages_iter)])

----------------------------------------------------------------------------
\* Specification SpecGraph: an issue of MaxShown messages, some of them with
\* a reference as second parent, and show collecting its tree graph

\* a commit that is not a message of the issue
ForeignOid == MaxShown + 1

\* a message has an older message as first parent and may have a second
\* parent: another older message or the foreign commit
ShownParentChoices(c) ==
    IF c = IssueId THEN {<<>>}
    ELSE {<<p>> : p \in 1..(c - 1)}
         \cup ({<<p, q>> : p \in 1..(c - 1), q \in (1..(c - 1)) \cup {ForeignOid}}
                    \ {<<p, p>> : p \in 1..(c - 1)})

RECURSIVE Descending(_)
\* the messages n, n - 1, ..., 1: every message before its ancestors
Descending(n) == IF n = 0 THEN <<>> ELSE <<n>> \o Descending(n - 1)

InitGraph ==
    /\ ValueIdle
    /\ AccIdle
    /\ FilterIdle
    /\ GcIdle
    /\ CliIdle
    /\ selected = <<>>
    /\ ParseIdle
    /\ parents \in {f \in [1..ForeignOid -> UNION {ShownParentChoices(c) : c \in 1..MaxShown}] :
                        /\ \A c \in 1..MaxShown : f[c] \in ShownParentChoices(c)
                        /\ f[ForeignOid] = <<>>}
    /\ trailers = [c \in 1..ForeignOid |-> <<>>]
    /\ refs = HeadRefs(IssueId, <<MaxShown>>, <<>>)
    /\ prios = <<"origin">>
    /\ tracks = <<>>
    /\ pending = Descending(MaxShown)
    /\ line = <<>>

\* show collects the next (graph-line, commit) pair of the tree graph
ShowNext ==
    /\ pending # <<>>
    /\ \E out \in show_next(tracks, pending, parents) :
        /\ tracks' = out.tracks
        /\ line' = <<[commit |-> Head(pending), elems |-> out.elems]>>
    /\ pending' = Tail(pending)
    /\ UNCHANGED <<accVars, repoVars, filtered, gcVars, cliVars, selected, parseVars>>

NextGraph == ShowNext

SpecGraph == InitGraph /\ [][NextGraph]_vars

\* the step emits a commit
ShowStep == pending # <<>> /\ pending' = Tail(pending) /\ line' # <<>>
\* the commit the step emits, and the slots waiting for it before the step
Emitted == Head(pending)
Waiting == {i \in 1..Len(tracks) : tracks[i] = Emitted}
\* the slot of the Node glyph: the leftmost slot waiting, or a new slot
NodeSlot ==
    IF Waiting = {} THEN Len(tracks) + 1
    ELSE CHOOSE i \in Waiting : \A j \in Waiting : i <= j
\* the parents of the emitted commit but the first
AdditionalParents ==
    {parents[Emitted][k] : k \in 2..Len(parents[Emitted])}

\* the graph-line of the step is the one the claim describes, and the Node
\* slot waits for the first parent afterwards (for nothing if there is none)
GraphLineAsClaimed ==
    LET elems == line'[1].elems
    IN  /\ line'[1].commit = Emitted
        /\ Len(elems) = IF Waiting = {} THEN Len(tracks) + 1 ELSE Len(tracks)
        /\ {i \in 1..Len(elems) : elems[i] = "Node"} = {NodeSlot}
        /\ \A i \in 1..Len(tracks) :
            i # NodeSlot =>
                elems[i] = IF i \in Waiting THEN "Merge"
                           ELSE IF tracks[i] = 0 THEN "Empty" ELSE "Passing"
        /\ Len(tracks') >= Len(elems)
        /\ tracks'[NodeSlot] = IF parents[Emitted] = <<>> THEN 0
                               ELSE parents[Emitted][1]

----------------------------------------------------------------------------
\* Filter specs of the command line

\* a text is a list of pieces; no piece is the concatenation of others
Pieces == {"status", "type", "x", ":", "7", "-"}

\* the value of a text of digits
RECURSIVE DecimalValue(_)
DecimalValue(digits) ==
    IF digits = <<>> THEN 0
    ELSE 10 * DecimalValue(SubSeq(digits, 1, Len(digits) - 1))
            + (IF digits[Len(digits)] = "7" THEN 7 ELSE 0)

\* TrailerValue::from_slice: an Int if the text is a signed decimal, else a
\* String
TrailerValue_from_slice(slice) ==
    LET digits == IF slice # <<>> /\ slice[1] = "-" THEN Tail(slice) ELSE slice
    IN  IF digits # <<>> /\ \A i \in 1..Len(digits) : digits[i] = "7"
        THEN [tag |-> "Int",
              int |-> IF slice[1] = "-" THEN 0 - DecimalValue(digits)
                      ELSE DecimalValue(digits)]
        ELSE [tag |-> "String", str |-> slice]

RECURSIVE splitn2(_, _)
\* s.splitn(2, ':') after the text before: the parts, one or two
splitn2(before, s) ==
    IF s = <<>> THEN <<before>>
    ELSE IF Head(s) = ":" THEN <<before, Tail(s)>>
    ELSE splitn2(Append(before, Head(s)), Tail(s))

\* ErrorKind::MalformedFilterSpec(s)
MalformedFilterSpec(s) ==
    [ok |-> FALSE, kind |-> "MalformedFilterSpec", input |-> s]

\* a spec without ':' is taken to have an empty value
FilterSpec_from_str_optional_value(s) ==
    LET parts == splitn2(<<>>, s)
        name == parts[1]
    IN  IF name \notin {<<"status">>, <<"type">>} THEN MalformedFilterSpec(s)
        ELSE [ok |-> TRUE,
              metadata |-> IF name = <<"status">> THEN StatusKey ELSE TypeKey,
              matcher |-> [tag |-> "Equals",
                           value |-> TrailerValue_from_slice(
                                IF Len(parts) < 2 THEN <<>> ELSE parts[2])]]
\* FilterSpec::from_str
FilterSpec_from_str(s) ==
    LET parts == splitn2(<<>>, s)
        name == parts[1]
    IN  IF name \notin {<<"status">>, <<"type">>} THEN MalformedFilterSpec(s)
        ELSE IF Len(parts) < 2 THEN MalformedFilterSpec(s)
        ELSE [ok |-> TRUE,
              metadata |-> IF name = <<"status">> THEN StatusKey ELSE TypeKey,
              matcher |-> [tag |-> "Equals",
                           value |-> TrailerValue_from_slice(parts[2])]]

----------------------------------------------------------------------------
\* Specification SpecParse: a text, and FilterSpec::from_str applied to it

InitParse ==
    /\ ValueIdle
    /\ AccIdle
    /\ RepoIdle
    /\ FilterIdle
    /\ GcIdle
    /\ CliIdle
    /\ selected = <<>>
    /\ GraphIdle
    /\ input \in SeqsUpTo(Pieces, MaxSpecLen)
    /\ parsed = <<>>

\* input.parse::<FilterSpec>()
Parse ==
    /\ parsed = <<>>
    /\ parsed' = <<FilterSpec_from_str(input)>>
    /\ UNCHANGED <<accVars, repoVars, filtered, gcVars, cliVars, selected, graphVars, input>>

NextParse == Parse

SpecParse == InitParse /\ [][NextParse]_vars

\* the positions of ':' in the input
Colons == {i \in 1..Len(input) : input[i] = ":"}
\* the position of the first ':'
FirstColon == CHOOSE i \in Colons : \A j \in Colons : i <= j

\* C18: parsing succeeds iff the input has a ':' and the text before the
\* first ':' is exactly status or type; the result then has the spec of
\* Issue-status resp. Issue-type and an Equals matcher on the value of
\* everything after the first ':' ; every other input fails with
\* MalformedFilterSpec carrying the whole input.
C18_FilterSpecParsing ==
    parsed # <<>> =>
        IF Colons # {} /\ SubSeq(input, 1, FirstColon - 1) \in {<<"status">>, <<"type">>}
        THEN /\ parsed[1].ok
             /\ parsed[1].metadata = (IF input[1] = "status" THEN "Issue-status"
                                      ELSE "Issue-type")
             /\ parsed[1].matcher.tag = "Equals"
             /\ parsed[1].matcher.value =
                    TrailerValue_from_slice(SubSeq(input, FirstColon + 1, Len(input)))
        ELSE /\ ~parsed[1].ok
             /\ parsed[1].kind = "MalformedFilterSpec"
             /\ parsed[1].input = input

\* type:: was parsed: the value is the text ":"
C18_Witness ==
    /\ input = <<"type", ":", ":">>
    /\ parsed # <<>>
    /\ parsed[1].ok
    /\ parsed[1].metadata = "Issue-type"
    /\ parsed[1].matcher.value = [tag |-> "String", str |-> <<":">>]

----------------------------------------------------------------------------
\* The messages the metadata filter looks at (specification SpecFilter)

\* the head select_ref selects for issue id, as the set of its targets
SelectedHeadCommit(id) ==
    LET heads == {r \in DOMAIN refs : r.issue = id /\ r.kind = "Head"}
    IN  IF LocalHead(id) \in heads THEN {refs[LocalHead(id)]}
        ELSE {refs[r] : r \in {q \in heads :
                \A o \in heads : IndexOf(prios, q.remote) <= IndexOf(prios, o.remote)}}

\* the messages on the first-parent walk from the selected head to the
\* initial message
HeadWalk(id) == UNION {WalkTo(id, c) : c \in SelectedHeadCommit(id)}

\* the trailers of the commits, those off the walk from the selected head
\* taken away
TrailersOnWalk(id) ==
    [c \in DOMAIN trailers |-> IF c \in HeadWalk(id) THEN trailers[c] ELSE <<>>]

\* C19: with a non-empty filter set, filter returns false for an issue
\* without a head, and for an issue with a head it returns what it returns
\* when every message off the first-parent walk from the selected head to
\* the initial message carries no trailer.
C19_OnlyHeadWalkCounts ==
    \A i \in 1..Len(filtered) :
        filtered[i].filters # <<>> =>
            /\ SelectedHeadCommit(filtered[i].issue) = {} => ~filtered[i].result
            /\ filtered[i].result =
                MetadataFilter_filter(filtered[i].filters, prios, refs, parents,
                    TrailersOnWalk(filtered[i].issue), filtered[i].issue)

\* the head is at the initial message, which says open; a reply off the walk
\* says closed; status:open accepts the issue
C19_Witness ==
    /\ filtered # <<>>
    /\ filtered[1].filters = << <<StatusKey, "open">> >>
    /\ filtered[1].result
    /\ SelectedHeadCommit(IssueId) = {IssueId}
    /\ trailers[IssueId] = << <<StatusKey, "open">> >>
    /\ \E c \in DOMAIN trailers :
        c \notin HeadWalk(IssueId) /\ trailers[c] = << <<StatusKey, "closed">> >>

----------------------------------------------------------------------------
\* Repeated mirror runs (specification SpecMirror)

\* the step repeats the mirror run before it, with the same arguments
MirrorRepeated ==
    /\ MirrorStep
    /\ commands # <<>>
    /\ commands[Len(commands)].cmd = "mirror"
    /\ commands[Len(commands)].args = StepArgs

\* C20: a mirror run with --clone-leaves leaves every reference that exists
\* in place, pointing where it pointed; and a run that repeats the run
\* before it creates no local leaf reference.
C20_MirrorAdditiveIdempotent ==
    [][MirrorStep /\ StepArgs.create_leaves =>
        /\ \A r \in DOMAIN refs : r \in DOMAIN refs' /\ refs'[r] = refs[r]
        /\ MirrorRepeated =>
            \A r \in DOMAIN refs' \ DOMAIN refs : ~(r.kind = "Leaf" /\ r.remote = None)]_vars

\* the first run created a local leaf reference next to one that existed,
\* the second run created nothing
C20_Witness ==
    /\ Len(commands) = 2
    /\ commands[1].args.create_leaves /\ ~commands[1].aborted
    /\ \E r \in commands[1].created : r.kind = "Leaf" /\ r.remote = None
    /\ \E r \in DOMAIN refs \ commands[1].created : r.kind = "Leaf" /\ r.remote = None
    /\ commands[2].created = {}
====
